---- MODULE Spec2Model ----
(***************************************************************************)
(* Document index (docIndex): lazy, cached, single-flight index build over *)
(* the configured PDFs, TF-IDF scoring and budgeted context retrieval.     *)
(*                                                                         *)
(* Text is a sequence of one-character strings.  Scores are kept exactly:  *)
(* a score s = SUM tf * ln((total+1)/(df+1)) is represented by the         *)
(* rational exp(s) = num/den, so that "s > 0" and "b.s - a.s" are decided  *)
(* without rounding.                                                       *)
(***************************************************************************)
EXTENDS Integers, Sequences, FiniteSets, TLC

VARIABLES
  variant,    \* which extractor the build uses: "pdftotext" or "pdfjs"
  env,        \* process.env.DOC_PATHS: [defined, value], value a text
  disk,       \* absolute path -> file on the backing store
  g,          \* globalThis.__DOC_INDEX: 0 (absent) or the id of a promise
  builds,     \* the buildIndex() executions started so far, by promise id
  calls,      \* the exported calls made by the request handlers
  resets,     \* number of resetIndex() calls so far
  started     \* for each build, the number of resets that preceded its start

vars == <<variant, env, disk, g, builds, calls, resets, started>>

-----------------------------------------------------------------------------
(* Bounds of the model *)

MaxCallers == 2
MaxResets == 1
MaxTextLen == 3

-----------------------------------------------------------------------------
(* Characters and text *)

LowerSeq ==
  <<"a", "b", "c", "d", "e", "f", "g", "h", "i", "j", "k", "l", "m", "n", "o", "p", "q",
    "r", "s", "t", "u", "v", "w", "x", "y", "z">>

UpperSeq ==
  <<"A", "B", "C", "D", "E", "F", "G", "H", "I", "J", "K", "L", "M", "N", "O", "P", "Q",
    "R", "S", "T", "U", "V", "W", "X", "Y", "Z">>

DigitSeq == <<"0", "1", "2", "3", "4", "5", "6", "7", "8", "9">>

Range(s) == {s[i] : i \in 1..Len(s)}

\* Op(x) with x evaluated once, where an operator's argument would be
\* evaluated again at each of its uses
Once(Op(_), x) == CHOOSE r \in {Op(v) : v \in {x}} : TRUE

\* \s of the regular expressions, on the characters the model uses
IsSpace(c) == c \in {" ", "\n", "\t"}

\* [a-z0-9]
IsLowerAlnum(c) == c \in Range(LowerSeq) \cup Range(DigitSeq)

\* String.prototype.toLowerCase, one character
LowerChar(c) ==
  IF c \in Range(UpperSeq)
  THEN LowerSeq[CHOOSE i \in 1..Len(UpperSeq) : UpperSeq[i] = c]
  ELSE c

toLowerCase(text) == [i \in 1..Len(text) |-> LowerChar(text[i])]

\* String.prototype.trim
trim(s) ==
  IF \A i \in 1..Len(s) : IsSpace(s[i]) THEN <<>>
  ELSE LET first == CHOOSE i \in 1..Len(s) :
                      ~IsSpace(s[i]) /\ \A j \in 1..(i-1) : IsSpace(s[j])
           last == CHOOSE i \in 1..Len(s) :
                      ~IsSpace(s[i]) /\ \A j \in (i+1)..Len(s) : IsSpace(s[j])
       IN SubSeq(s, first, last)

\* input.replace(/\s+/g, " ") on s[lo..hi]: every maximal run of whitespace
\* becomes one space (the run's first character yields it)
RECURSIVE CollapseRange(_, _, _)
CollapseRange(s, lo, hi) ==
  IF lo > hi THEN <<>>
  ELSE IF lo = hi
  THEN IF IsSpace(s[lo])
       THEN IF lo > 1 /\ IsSpace(s[lo-1]) THEN <<>> ELSE <<" ">>
       ELSE <<s[lo]>>
  ELSE LET mid == (lo + hi) \div 2
       IN CollapseRange(s, lo, mid) \o CollapseRange(s, mid + 1, hi)

normalizeWhitespace(input) == trim(CollapseRange(input, 1, Len(input)))

\* .replace(/[^a-z0-9\s]/g, " ")
ReplaceNonAlnum(s) ==
  [i \in 1..Len(s) |-> IF IsLowerAlnum(s[i]) \/ IsSpace(s[i]) THEN s[i] ELSE " "]

\* the non-empty pieces of s[lo..hi] between runs of whitespace, in order
RECURSIVE WordsRange(_, _, _)
WordsRange(s, lo, hi) ==
  IF lo > hi THEN <<>>
  ELSE IF lo = hi
  THEN IF ~IsSpace(s[lo]) /\ (lo = 1 \/ IsSpace(s[lo-1]))
       THEN LET end == CHOOSE j \in lo..Len(s) :
                         /\ \A k \in lo..j : ~IsSpace(s[k])
                         /\ (j = Len(s) \/ IsSpace(s[j+1]))
            IN <<SubSeq(s, lo, end)>>
       ELSE <<>>
  ELSE LET mid == (lo + hi) \div 2
       IN WordsRange(s, lo, mid) \o WordsRange(s, mid + 1, hi)

\* .split(/\s+/): leading or trailing whitespace leaves an empty piece at
\* that end, and the empty string splits into one empty piece
SplitWhitespace(s) ==
  IF s = <<>> THEN << <<>> >>
  ELSE (IF IsSpace(s[1]) THEN << <<>> >> ELSE <<>>)
       \o WordsRange(s, 1, Len(s))
       \o (IF IsSpace(s[Len(s)]) THEN << <<>> >> ELSE <<>>)

\* .filter(Boolean) on strings: the empty string is falsy
IsNonEmpty(t) == t # <<>>
FilterBoolean(pieces) == SelectSeq(pieces, IsNonEmpty)

\* a tokenize that splits the lowered text as it is
tokenizeWithoutReplace(text) == FilterBoolean(SplitWhitespace(toLowerCase(text)))

tokenize(text) == FilterBoolean(SplitWhitespace(ReplaceNonAlnum(toLowerCase(text))))

\* String(n) for a natural number
RECURSIVE NumString(_)
NumString(n) ==
  IF n < 10 THEN <<DigitSeq[n + 1]>>
  ELSE NumString(n \div 10) \o <<DigitSeq[(n % 10) + 1]>>

\* parts.slice(k - 1).join(sep)
RECURSIVE JoinFrom(_, _, _)
JoinFrom(parts, k, sep) ==
  IF k > Len(parts) THEN <<>>
  ELSE IF k = Len(parts) THEN parts[k]
  ELSE parts[k] \o sep \o JoinFrom(parts, k + 1, sep)

\* parts.join(sep)
Join(parts, sep) == JoinFrom(parts, 1, sep)

\* s.split(sep) for a one-character separator: the pieces between
\* separators, empty ones included
SplitOn(s, sep) ==
  LET at == {i \in 1..Len(s) : s[i] = sep}
      \* the position of the k-th separator; 0 and Len(s) + 1 bracket them
      Pos(k) == IF k = 0 THEN 0
                ELSE IF k > Cardinality(at) THEN Len(s) + 1
                ELSE CHOOSE i \in at : Cardinality({j \in at : j <= i}) = k
  IN [k \in 1..(Cardinality(at) + 1) |-> SubSeq(s, Pos(k - 1) + 1, Pos(k) - 1)]

Min(a, b) == IF a < b THEN a ELSE b
Max(a, b) == IF a > b THEN a ELSE b

RECURSIVE Power(_, _)
Power(b, e) == IF e = 0 THEN 1 ELSE b * Power(b, e - 1)

\* Array.prototype.slice(0, end) for an integer end
Slice0(arr, end) ==
  LET e == IF end < 0 THEN Max(Len(arr) + end, 0) ELSE Min(end, Len(arr))
  IN SubSeq(arr, 1, e)

-----------------------------------------------------------------------------
(* Paths and configuration *)

\* process.cwd()
Cwd == <<"/", "w", "/", "a">>

DefaultPdfName ==
  <<"2", "0", "2", "4", "_", "N", "a", "t", "i", "o", "n", "a", "l", "_", "C", "u", "s",
    "t", "o", "d", "i", "a", "l", "_", "S", "p", "e", "c", "i", "f", "i", "c", "a", "t",
    "i", "o", "n", "_", "O", "c", "t", "o", "b", "e", "r", "_", "2", "0", "2", "4", "-",
    "1", ".", "p", "d", "f">>

\* path.isAbsolute (POSIX)
isAbsolute(p) == p # <<>> /\ p[1] = "/"

\* the segments segs[k..] of a path resolved onto acc: "" and "." are
\* dropped, ".." removes the segment before it
RECURSIVE ResolveSegments(_, _, _)
ResolveSegments(segs, k, acc) ==
  IF k > Len(segs) THEN acc
  ELSE IF segs[k] = <<>> \/ segs[k] = <<".">> THEN ResolveSegments(segs, k + 1, acc)
  ELSE IF segs[k] = <<".", ".">>
  THEN ResolveSegments(segs, k + 1,
                       IF acc = <<>> THEN acc ELSE SubSeq(acc, 1, Len(acc) - 1))
  ELSE ResolveSegments(segs, k + 1, Append(acc, segs[k]))

\* path.resolve(from, p) (POSIX) for an absolute from
resolve(from, p) ==
  LET segs == IF isAbsolute(p) THEN SplitOn(p, "/")
              ELSE SplitOn(from, "/") \o SplitOn(p, "/")
  IN <<"/">> \o Join(ResolveSegments(segs, 1, <<>>), <<"/">>)

\* path.basename (POSIX): the last non-empty segment
basename(p) ==
  LET segs == FilterBoolean(SplitOn(p, "/"))
  IN IF segs = <<>> THEN <<>> ELSE segs[Len(segs)]

\* the built-in default location, per extractor variant
fallback(v) ==
  IF v = "pdftotext"
  THEN resolve(Cwd, <<".", ".", "/", ".", ".", "/", "d", "o", "c", "u", "m", "e", "n",
                      "t", "s", "/">> \o DefaultPdfName)
  ELSE resolve(Cwd, <<"p", "u", "b", "l", "i", "c", "/", "d", "o", "c", "u", "m", "e",
                      "n", "t", "s", "/">> \o DefaultPdfName)

\* process.env.DOC_PATHS?.split(",").map((p) => p.trim()).filter(Boolean) ?? []
envPaths(e) ==
  IF ~e.defined THEN <<>>
  ELSE LET pieces == SplitOn(e.value, ",")
       IN FilterBoolean([i \in 1..Len(pieces) |-> trim(pieces[i])])

filePaths(e, v) == IF Len(envPaths(e)) > 0 THEN envPaths(e) ELSE <<fallback(v)>>

\* path.isAbsolute(p) ? p : path.resolve(process.cwd(), p)
absOf(p) == IF isAbsolute(p) THEN p ELSE resolve(Cwd, p)

\* fs.existsSync
existsSync(d, abs) == abs \in DOMAIN d

-----------------------------------------------------------------------------
(* The document source: what pdfinfo / pdftotext / pdfjs return for a file. *)
(* A file is [infoOk, pages]: infoOk says whether the page count can be     *)
(* read (pdfinfo succeeds, pdfjs parses the document); pages[p] is          *)
(* [ok, raw]: whether page p can be extracted, and its raw text.            *)

\* const targetChunkChars = 900
targetChunkChars == 900

\* run("pdfinfo", [absPath]), info.match(/Pages:\s+(\d+)/), parseInt:
\* run() returns "" when the command fails, and then nothing matches
PdfInfoPages(file) == IF file.infoOk THEN Len(file.pages) ELSE 0

\* execFileSync("pdftotext", [..., "-f", p, "-l", p, abs, "-"])
PdfToTextPage(file, p) ==
  IF p \in 1..Len(file.pages) /\ file.pages[p].ok
  THEN [threw |-> FALSE, out |-> file.pages[p].raw \o <<"\n">>]
  ELSE [threw |-> TRUE, out |-> <<>>]

RECURSIVE ConcatPages(_, _, _)
ConcatPages(pages, p, sep) ==
  IF p > Len(pages) THEN <<>>
  ELSE pages[p].raw \o sep \o ConcatPages(pages, p + 1, sep)

\* execFileSync("pdftotext", [..., abs, "-"]) without a page range
PdfToTextAll(file) ==
  IF file.pages # <<>> /\ \A p \in 1..Len(file.pages) : file.pages[p].ok
  THEN [threw |-> FALSE, out |-> ConcatPages(file.pages, 1, <<"\n">>)]
  ELSE [threw |-> TRUE, out |-> <<>>]

\* const run = (cmd, args) => { try { return execFileSync(...) } catch { return "" } }
run(r) == IF r.threw THEN <<>> ELSE r.out

\* extractRange(from, to): the range is passed only when both are truthy
extractRange(file, from, to) ==
  normalizeWhitespace(run(IF from # 0 /\ to # 0 THEN PdfToTextPage(file, from)
                          ELSE PdfToTextAll(file)))

\* a slicing loop that stops before a last window shorter than targetChunkChars
SliceChunksDroppingRemainder(text, absPath, docName, page) ==
  [k \in 1..(Len(text) \div targetChunkChars) |->
     LET i == (k - 1) * targetChunkChars
     IN [id |-> docName \o <<"-", "p">> \o NumString(page) \o <<"-">> \o NumString(i),
         docPath |-> absPath,
         docName |-> docName,
         page |-> page,
         text |-> SubSeq(text, i + 1, i + targetChunkChars)]]

\* for (let i = 0; i < text.length; i += targetChunkChars) chunks.push({...})
SliceChunks(text, absPath, docName, page) ==
  LET n == (Len(text) + targetChunkChars - 1) \div targetChunkChars
  IN [k \in 1..n |->
        LET i == (k - 1) * targetChunkChars
        IN [id |-> docName \o <<"-", "p">> \o NumString(page) \o <<"-">> \o NumString(i),
            docPath |-> absPath,
            docName |-> docName,
            page |-> page,
            text |-> SubSeq(text, i + 1, Min(i + targetChunkChars, Len(text)))]]

\* for (let p = 1; p <= pages; p++) { ...; if (!pageText) continue; ... }
RECURSIVE PageChunks(_, _, _, _)
PageChunks(absPath, file, p, pages) ==
  IF p > pages THEN <<>>
  ELSE LET pageText == extractRange(file, p, p)
       IN (IF pageText = <<>> THEN <<>>
           ELSE SliceChunks(pageText, absPath, basename(absPath), p))
          \o PageChunks(absPath, file, p + 1, pages)

\* extractPdfChunks, pdfinfo/pdftotext variant
extractPdfChunksPdftotext(absPath, file) ==
  LET pages == PdfInfoPages(file)
  IN IF pages > 0 THEN PageChunks(absPath, file, 1, pages)
     ELSE LET all == extractRange(file, 0, 0)
          IN IF all # <<>> THEN SliceChunks(all, absPath, basename(absPath), 1)
             ELSE <<>>

\* extractPdfChunks, pdfjs variant: any failure while reading the document
\* or one of its pages lands in the catch, before any chunk was pushed
extractPdfChunksPdfjs(absPath, file) ==
  IF ~file.infoOk \/ \E p \in 1..Len(file.pages) : ~file.pages[p].ok
  THEN <<>>
  ELSE LET normalizedText == normalizeWhitespace(ConcatPages(file.pages, 1, <<" ">>))
       IN IF normalizedText = <<>> THEN <<>>
          ELSE SliceChunks(normalizedText, absPath, basename(absPath), 1)

extractPdfChunks(v, absPath, file) ==
  IF v = "pdftotext" THEN extractPdfChunksPdftotext(absPath, file)
  ELSE extractPdfChunksPdfjs(absPath, file)

-----------------------------------------------------------------------------
(* buildIndex *)

\* the iteration order of new Set(tokens): distinct tokens, first occurrence first
RECURSIVE DistinctRange(_, _, _)
DistinctRange(s, lo, hi) ==
  IF lo > hi THEN <<>>
  ELSE IF lo = hi
  THEN IF \E j \in 1..(lo - 1) : s[j] = s[lo] THEN <<>> ELSE <<s[lo]>>
  ELSE LET mid == (lo + hi) \div 2
       IN DistinctRange(s, lo, mid) \o DistinctRange(s, mid + 1, hi)

\* the terms of a chunk with every repeat kept: tokenize(chunk.text) without
\* new Set(...)
allTerms(text) == tokenize(text)

\* const uniqueTerms = new Set(tokenize(chunk.text))
uniqueTerms(text) == LET t == tokenize(text) IN DistinctRange(t, 1, Len(t))

\* map.get(key) || dflt, for a Map of numbers
GetOr(map, key, dflt) ==
  IF key \in DOMAIN map /\ map[key] # 0 THEN map[key] ELSE dflt

\* for (const term of terms) df.set(term, (df.get(term) || 0) + 1), from terms[k] on
RECURSIVE CountTerms(_, _, _)
CountTerms(df, terms, k) ==
  IF k > Len(terms) THEN df
  ELSE Once(LAMBDA next : CountTerms(next, terms, k + 1),
            [t \in DOMAIN df \cup {terms[k]} |->
               IF t = terms[k] THEN GetOr(df, t, 0) + 1 ELSE df[t]])

\* for (const chunk of allChunks) { ... }
RECURSIVE BuildDf(_, _, _)
BuildDf(allChunks, k, df) ==
  IF k > Len(allChunks) THEN df
  ELSE Once(LAMBDA next : BuildDf(allChunks, k + 1, next),
            Once(LAMBDA terms : CountTerms(df, terms, 1), uniqueTerms(allChunks[k].text)))

\* return { chunks: allChunks, df, totalChunks: allChunks.length }
IndexStateOf(allChunks) ==
  Once(LAMBDA all : [chunks |-> all, df |-> BuildDf(all, 1, <<>>), totalChunks |-> Len(all)],
       allChunks)

NoIndexState == [chunks |-> <<>>, df |-> <<>>, totalChunks |-> 0]

\* a buildIndex that gives up at the first configured path that is missing
RunBuildAborting(v, paths, i, allChunks, d) ==
  IF i > Len(paths) \/ ~existsSync(d, absOf(paths[i]))
  THEN [status |-> "fulfilled", paths |-> paths, i |-> i, allChunks |-> allChunks,
        awaited |-> <<>>, value |-> IndexStateOf(allChunks)]
  ELSE [status |-> "pending", paths |-> paths, i |-> i, allChunks |-> allChunks,
        awaited |-> extractPdfChunks(v, absOf(paths[i]), d[absOf(paths[i])]),
        value |-> NoIndexState]

\* buildIndex from loop position i on, up to its next await or its return.
\* A path that does not exist is skipped without suspending; for one that
\* exists extractPdfChunks has read the file when the await suspends.
RECURSIVE RunBuild(_, _, _, _, _)
RunBuild(v, paths, i, allChunks, d) ==
  IF i > Len(paths)
  THEN [status |-> "fulfilled", paths |-> paths, i |-> i, allChunks |-> allChunks,
        awaited |-> <<>>, value |-> IndexStateOf(allChunks)]
  ELSE LET abs == absOf(paths[i])
       IN IF existsSync(d, abs)
          THEN [status |-> "pending", paths |-> paths, i |-> i, allChunks |-> allChunks,
                awaited |-> extractPdfChunks(v, abs, d[abs]), value |-> NoIndexState]
          ELSE RunBuild(v, paths, i + 1, allChunks, d)

\* the call buildIndex(): runs to the first await
buildIndex(v, e, d) == RunBuild(v, filePaths(e, v), 1, <<>>, d)

\* a continuation that puts the chunks of a document before those already there
ResumeBuildPrepending(v, b, d) ==
  RunBuild(v, b.paths, b.i + 1, b.awaited \o b.allChunks, d)

\* the continuation of a suspended build: allChunks.push(...chunks), next path
ResumeBuild(v, b, d) == RunBuild(v, b.paths, b.i + 1, b.allChunks \o b.awaited, d)

-----------------------------------------------------------------------------
(* scoreChunk and getRelevantContext *)

\* termCounts.get(qt) || 0
TermCount(textTokens, qt) == Cardinality({i \in 1..Len(textTokens) : textTokens[i] = qt})

\* The loop of scoreChunk over queryTokens[k..]; the running score is kept as
\* exp(score) = num/den: score += tf * Math.log((total + 1) / (docFreq + 1))
RECURSIVE ScoreLoop(_, _, _, _, _, _)
ScoreLoop(queryTokens, k, textTokens, df, total, score) ==
  IF k > Len(queryTokens) THEN score
  ELSE LET qt == queryTokens[k]
           tf == TermCount(textTokens, qt)
           docFreq == GetOr(df, qt, 1)
       IN IF tf = 0 THEN ScoreLoop(queryTokens, k + 1, textTokens, df, total, score)
          ELSE ScoreLoop(queryTokens, k + 1, textTokens, df, total,
                         [num |-> score.num * Power(total + 1, tf),
                          den |-> score.den * Power(docFreq + 1, tf)])

\* a scoreChunk whose idf is Math.log(total / (docFreq + 1))
scoreChunkUnsmoothed(queryTokens, chunk, df, total) ==
  ScoreLoop(queryTokens, 1, tokenize(chunk.text), df, total - 1, [num |-> 1, den |-> 1])

\* let score = 0 is exp(0) = 1/1
scoreChunk(queryTokens, chunk, df, total) ==
  ScoreLoop(queryTokens, 1, tokenize(chunk.text), df, total, [num |-> 1, den |-> 1])

\* x.s > 0
ScorePositive(s) == s.num > s.den

\* a.s > b.s
ScoreGreater(a, b) == a.num * b.den > b.num * a.den

\* a sort that is not stable: elements that compare equal come out reversed
SortByScoreDescTiesReversed(scored) ==
  LET n == Len(scored)
      Before(j, i) == \/ ScoreGreater(scored[j].s, scored[i].s)
                      \/ (~ScoreGreater(scored[i].s, scored[j].s) /\ j > i)
      Rank(i) == 1 + Cardinality({j \in 1..n : j # i /\ Before(j, i)})
  IN [r \in 1..n |-> scored[CHOOSE i \in 1..n : Rank(i) = r]]

\* .sort((a, b) => b.s - a.s): descending by score; Array.prototype.sort is
\* stable, so elements that compare equal keep their order
SortByScoreDesc(scored) ==
  LET n == Len(scored)
      Before(j, i) == \/ ScoreGreater(scored[j].s, scored[i].s)
                      \/ (~ScoreGreater(scored[i].s, scored[j].s) /\ j < i)
      Rank(i) == 1 + Cardinality({j \in 1..n : j # i /\ Before(j, i)})
  IN [r \in 1..n |-> scored[CHOOSE i \in 1..n : Rank(i) = r]]

\* index.chunks.map((c) => ({ c, s: scoreChunk(...) })).sort(...)
ScoredAll(index, qTokens) ==
  SortByScoreDesc([i \in 1..Len(index.chunks) |->
                     [c |-> index.chunks[i],
                      s |-> scoreChunk(qTokens, index.chunks[i], index.df,
                                       index.totalChunks)]])

HasPositiveScore(x) == ScorePositive(x.s)

\* a selection of the first topK of scoredAll whatever their scores
PickedWhateverScore(scoredAll, topK) == Slice0(scoredAll, topK)

\* a selection without the fallback to the first topK of scoredAll
PickedPositiveOnly(scoredAll, topK) ==
  Slice0(SelectSeq(scoredAll, HasPositiveScore), topK)

\* picked: the positive scores up to topK, else the first topK of scoredAll
Picked(scoredAll, topK) ==
  LET positive == Slice0(SelectSeq(scoredAll, HasPositiveScore), topK)
  IN IF Len(positive) = 0 THEN Slice0(scoredAll, topK) ELSE positive

\* const header = `[${c.docName} p.${c.page}]`
BlockHeader(c) == <<"[">> \o c.docName \o <<" ", "p", ".">> \o NumString(c.page) \o <<"]">>

\* a block without the line break between header and text
BlockWithoutNewline(c) == BlockHeader(c) \o normalizeWhitespace(c.text)

\* const block = `${header}\n${normalizeWhitespace(c.text)}`
Block(c) == BlockHeader(c) \o <<"\n">> \o normalizeWhitespace(c.text)

\* an assembly loop that never breaks
NeverOverBudget(used, block, charBudget) == FALSE

\* used + block.length + 4 > charBudget
OverBudget(used, block, charBudget) == used + Len(block) + 4 > charBudget

\* an assembly loop whose segments count the chunk text, not the block
RECURSIVE AssembleCountingText(_, _, _, _)
AssembleCountingText(picked, k, acc, charBudget) ==
  IF k > Len(picked) THEN acc
  ELSE LET c == picked[k].c
           block == Block(c)
       IN IF OverBudget(acc.used, block, charBudget) THEN acc
          ELSE AssembleCountingText(picked, k + 1,
                                    [lines |-> Append(acc.lines, block),
                                     segments |-> Append(acc.segments,
                                                         [docName |-> c.docName,
                                                          page |-> c.page,
                                                          charCount |-> Len(c.text)]),
                                     used |-> acc.used + Len(block) + 4],
                                    charBudget)

\* an assembly loop that passes over a block that does not fit and goes on
RECURSIVE AssembleSkipping(_, _, _, _)
AssembleSkipping(picked, k, acc, charBudget) ==
  IF k > Len(picked) THEN acc
  ELSE LET c == picked[k].c
           block == Block(c)
       IN IF OverBudget(acc.used, block, charBudget)
          THEN AssembleSkipping(picked, k + 1, acc, charBudget)
          ELSE AssembleSkipping(picked, k + 1,
                                [lines |-> Append(acc.lines, block),
                                 segments |-> Append(acc.segments,
                                                     [docName |-> c.docName,
                                                      page |-> c.page,
                                                      charCount |-> Len(block)]),
                                 used |-> acc.used + Len(block) + 4],
                                charBudget)

\* the assembly loop over picked[k..]
RECURSIVE Assemble(_, _, _, _)
Assemble(picked, k, acc, charBudget) ==
  IF k > Len(picked) THEN acc
  ELSE LET c == picked[k].c
           block == Block(c)
       IN IF OverBudget(acc.used, block, charBudget) THEN acc
          ELSE Assemble(picked, k + 1,
                        [lines |-> Append(acc.lines, block),
                         segments |-> Append(acc.segments,
                                             [docName |-> c.docName, page |-> c.page,
                                              charCount |-> Len(block)]),
                         used |-> acc.used + Len(block) + 4],
                        charBudget)

ContextHeader ==
  <<"R", "e", "l", "e", "v", "a", "n", "t", " ", "d", "o", "c", "u", "m", "e", "n", "t",
    " ", "e", "x", "c", "e", "r", "p", "t", "s", " ", "(", "u", "s", "e", " ", "f", "o",
    "r", " ", "r", "e", "f", "e", "r", "e", "n", "c", "e", ";", " ", "c", "i", "t", "e",
    " ", "w", "h", "e", "n", " ", "u", "s", "e", "f", "u", "l", ")", ":", "\n", "\n">>

BlockSeparator == <<"\n", "\n", "-", "-", "-", "\n", "\n">>

\* the value null of RetrievedContext
NullContext == [isNull |-> TRUE, text |-> <<>>, segments |-> <<>>]

\* if (lines.length === 0) return null; return { text, segments }
ContextOf(acc) ==
  IF Len(acc.lines) = 0 THEN NullContext
  ELSE [isNull |-> FALSE,
        text |-> ContextHeader \o Join(acc.lines, BlockSeparator),
        segments |-> acc.segments]

\* a getRelevantContext that returns { text, segments } whatever was taken
getRelevantContextNeverNull(index, query, charBudget, topK) ==
  LET picked == Picked(ScoredAll(index, tokenize(query)), topK)
      acc == Assemble(picked, 1, [lines |-> <<>>, segments |-> <<>>, used |-> 0],
                      charBudget)
  IN [isNull |-> FALSE,
      text |-> ContextHeader \o Join(acc.lines, BlockSeparator),
      segments |-> acc.segments]

\* getRelevantContext after `const index = await ensureIndex()`
getRelevantContext(index, query, charBudget, topK) ==
  IF index.totalChunks = 0 THEN NullContext
  ELSE LET qTokens == tokenize(query)
           picked == Picked(ScoredAll(index, qTokens), topK)
       IN ContextOf(Assemble(picked, 1, [lines |-> <<>>, segments |-> <<>>, used |-> 0],
                             charBudget))

\* a retrieval that left index.chunks reversed
IndexReversedInPlace(index, query) ==
  [index EXCEPT !.chunks = [i \in 1..Len(index.chunks) |->
                              index.chunks[Len(index.chunks) + 1 - i]]]

\* a retrieval that sorted index.chunks itself instead of the mapped copy
IndexSortedInPlace(index, query) ==
  LET sorted == ScoredAll(index, tokenize(query))
  IN [index EXCEPT !.chunks = [i \in 1..Len(sorted) |-> sorted[i].c]]

\* what a retrieval leaves of the index it read: map() copies the chunk
\* array before sort(), so the index is left as it was
IndexAfterRetrieval(index, query) == index

-----------------------------------------------------------------------------
(* getIndexDiagnostics and scanConfiguredPdfs *)

\* filePaths.map((p) => ({ path: abs, exists: fs.existsSync(abs) }))
ConfiguredPaths(v, e, d) ==
  LET paths == filePaths(e, v)
  IN [i \in 1..Len(paths) |->
        [path |-> absOf(paths[i]), exists |-> existsSync(d, absOf(paths[i]))]]

\* fileToPages: docName -> Set of pages, in insertion order of the doc names
DiagnosticFiles(idx) ==
  LET names == [i \in 1..Len(idx.chunks) |-> idx.chunks[i].docName]
      docs == DistinctRange(names, 1, Len(names))
  IN [k \in 1..Len(docs) |->
        [docName |-> docs[k],
         pages |-> Cardinality({idx.chunks[i].page :
                                  i \in {j \in 1..Len(idx.chunks) :
                                           idx.chunks[j].docName = docs[k]}})]]

\* getIndexDiagnostics after `const idx = await ensureIndex()`
getIndexDiagnostics(idx, v, e, d) ==
  [totalChunks |-> idx.totalChunks,
   files |-> DiagnosticFiles(idx),
   configuredPaths |-> ConfiguredPaths(v, e, d)]

\* one entry of pagesOut (pdftotext variant)
ScanPage(file, pg) ==
  LET r == PdfToTextPage(file, pg)
  IN IF r.threw
     THEN [page |-> pg, extractedChars |-> 0, usedOcr |-> FALSE, error |-> TRUE]
     ELSE [page |-> pg, extractedChars |-> Len(normalizeWhitespace(r.out)),
           usedOcr |-> FALSE, error |-> FALSE]

\* docRes for one configured path
ScanDoc(v, abs, d, maxPages) ==
  IF ~existsSync(d, abs) THEN [path |-> abs, exists |-> FALSE, pages |-> <<>>]
  ELSE IF v = "pdftotext"
  THEN LET pages == PdfInfoPages(d[abs])
           upto == IF pages > 0 THEN Min(maxPages, pages) ELSE maxPages
       IN [path |-> abs, exists |-> TRUE,
           pages |-> [pg \in 1..upto |-> ScanPage(d[abs], pg)]]
  ELSE IF ~d[abs].infoOk \/ \E p \in 1..Len(d[abs].pages) : ~d[abs].pages[p].ok
  THEN [path |-> abs, exists |-> TRUE,
        pages |-> <<[page |-> 0, extractedChars |-> 0, usedOcr |-> FALSE,
                     error |-> TRUE]>>]
  ELSE [path |-> abs, exists |-> TRUE,
        pages |-> <<[page |-> 1,
                     extractedChars |->
                       Len(normalizeWhitespace(ConcatPages(d[abs].pages, 1, <<" ">>))),
                     usedOcr |-> FALSE, error |-> FALSE]>>]

scanConfiguredPdfs(v, e, d, maxPages) ==
  LET paths == filePaths(e, v)
  IN [docs |-> [i \in 1..Len(paths) |-> ScanDoc(v, absOf(paths[i]), d, maxPages)]]

-----------------------------------------------------------------------------
(* The lifecycle: ensureIndex, resetIndex and the calls built on them *)

\* an ensureIndex that builds without storing the promise in the cache
ensureIndexUncached(cache, bs, v, e, d) ==
  [g |-> 0, builds |-> Append(bs, buildIndex(v, e, d)), promise |-> Len(bs) + 1]

\* an ensureIndex that keeps the cached promise only while its build runs
ensureIndexRebuilding(cache, bs, v, e, d) ==
  IF cache = 0 \/ bs[cache].status = "fulfilled"
  THEN [g |-> Len(bs) + 1, builds |-> Append(bs, buildIndex(v, e, d)),
        promise |-> Len(bs) + 1]
  ELSE [g |-> cache, builds |-> bs, promise |-> cache]

\* ensureIndex(): if (!g.__DOC_INDEX) g.__DOC_INDEX = buildIndex();
\* return g.__DOC_INDEX.  A promise is named by its position in builds.
ensureIndex(cache, bs, v, e, d) ==
  IF cache = 0
  THEN [g |-> Len(bs) + 1, builds |-> Append(bs, buildIndex(v, e, d)),
        promise |-> Len(bs) + 1]
  ELSE [g |-> cache, builds |-> bs, promise |-> cache]

\* a resetIndex that leaves the cache as it is
resetIndexKeeping(cache) == cache

\* resetIndex(): delete globalThis.__DOC_INDEX
resetIndex(cache) == 0

\* a build that is resumed only while its promise is the cached one
MayResumeWhileCached(b) == builds[b].status = "pending" /\ g = b

\* whether a suspended build is resumed by the event loop
MayResume(b) == builds[b].status = "pending"

Callers == 1..MaxCallers

\* the executions of buildIndex that are suspended at an await
InFlight == {b \in 1..Len(builds) : builds[b].status = "pending"}

\* Continuations that run before the code of any other request: a call whose
\* awaited promise is fulfilled is resumed by a microtask, and so is a build
\* of the pdftotext variant, whose extractPdfChunks does all its work with
\* execFileSync and returns a promise that is already resolved.  The pdfjs
\* variant awaits pdfjsLib.getDocument(...).promise inside extractPdfChunks,
\* which other requests may overtake.
TurnPending ==
  \/ variant = "pdftotext" /\ InFlight # {}
  \/ \E c \in Callers : /\ calls[c].pc = "await"
                         /\ builds[calls[c].p].status = "fulfilled"

\* the calls are numbered in the order in which they are issued
IsNextCall(c) == calls[c].pc = "idle" /\ \A k \in 1..(c - 1) : calls[k].pc # "idle"

NoDiagnostics == [totalChunks |-> 0, files |-> <<>>, configuredPaths |-> <<>>]
NoScan == [docs |-> <<>>]
NoResponse == [status |-> 0]
NoReply == [threw |-> FALSE, text |-> ""]

IdleCall ==
  [op |-> "none", pc |-> "idle", p |-> 0, epoch |-> 0,
   query |-> <<>>, charBudget |-> 0, topK |-> 0, maxPages |-> 0,
   index |-> 0, context |-> NullContext, diagnostics |-> NoDiagnostics, scan |-> NoScan,
   stage |-> "none", debug |-> FALSE, imageBase64 |-> <<>>, sent |-> <<>>,
   reply |-> NoReply, response |-> NoResponse]

\* a call that starts with `await ensureIndex()`
AwaitEnsure(c, op, query, charBudget, topK) ==
  LET r == ensureIndex(g, builds, variant, env, disk)
  IN /\ IsNextCall(c)
     /\ ~TurnPending
     /\ g' = r.g
     /\ builds' = r.builds
     /\ started' = IF Len(r.builds) > Len(builds) THEN Append(started, resets) ELSE started
     /\ calls' = [calls EXCEPT ![c] =
                    [@ EXCEPT !.op = op, !.pc = "await", !.p = r.promise, !.epoch = resets,
                              !.query = query, !.charBudget = charBudget, !.topK = topK]]
     /\ UNCHANGED <<variant, env, disk, resets>>

CallEnsureIndex(c) == AwaitEnsure(c, "ensureIndex", <<>>, 0, 0)

CallGetRelevantContext(c, query, charBudget, topK) ==
  AwaitEnsure(c, "getRelevantContext", query, charBudget, topK)

CallGetIndexDiagnostics(c) == AwaitEnsure(c, "getIndexDiagnostics", <<>>, 0, 0)

\* a scan that makes sure of the index first
CallScanThroughIndex(c, maxPages) ==
  LET r == ensureIndex(g, builds, variant, env, disk)
  IN /\ IsNextCall(c)
     /\ ~TurnPending
     /\ g' = r.g
     /\ builds' = r.builds
     /\ started' = IF Len(r.builds) > Len(builds) THEN Append(started, resets) ELSE started
     /\ calls' = [calls EXCEPT ![c] =
                    [@ EXCEPT !.op = "scanConfiguredPdfs", !.pc = "done", !.epoch = resets,
                              !.maxPages = maxPages,
                              !.scan = scanConfiguredPdfs(variant, env, disk, maxPages)]]
     /\ UNCHANGED <<variant, env, disk, resets>>

\* scanConfiguredPdfs never touches the index
CallScanConfiguredPdfs(c, maxPages) ==
  /\ IsNextCall(c)
  /\ ~TurnPending
  /\ calls' = [calls EXCEPT ![c] =
                 [@ EXCEPT !.op = "scanConfiguredPdfs", !.pc = "done", !.epoch = resets,
                           !.maxPages = maxPages,
                           !.scan = scanConfiguredPdfs(variant, env, disk, maxPages)]]
  /\ UNCHANGED <<variant, env, disk, g, builds, resets, started>>

CallResetIndex ==
  /\ resets < MaxResets
  /\ ~TurnPending
  /\ g' = resetIndex(g)
  /\ resets' = resets + 1
  /\ UNCHANGED <<variant, env, disk, builds, calls, started>>

\* a build that stores itself in the cache when it completes
BuildStepCaching(b) ==
  /\ b \in 1..Len(builds)
  /\ MayResume(b)
  /\ builds' = [builds EXCEPT ![b] = ResumeBuild(variant, builds[b], disk)]
  /\ g' = IF builds'[b].status = "fulfilled" THEN b ELSE g
  /\ UNCHANGED <<variant, env, disk, calls, resets, started>>

\* the event loop resumes a build suspended at `await extractPdfChunks(abs)`
BuildStep(b) ==
  /\ b \in 1..Len(builds)
  /\ MayResume(b)
  /\ builds' = [builds EXCEPT ![b] = ResumeBuild(variant, builds[b], disk)]
  /\ UNCHANGED <<variant, env, disk, g, calls, resets, started>>

\* the event loop resumes a call whose awaited promise is fulfilled
Resume(c) ==
  /\ calls[c].pc = "await"
  /\ builds[calls[c].p].status = "fulfilled"
  /\ LET p == calls[c].p
         idx == builds[p].value
     IN IF calls[c].op = "getRelevantContext"
        THEN /\ calls' = [calls EXCEPT ![c] =
                            [@ EXCEPT !.pc = "done", !.index = p,
                                      !.context = getRelevantContext(idx, calls[c].query,
                                                                     calls[c].charBudget,
                                                                     calls[c].topK)]]
             /\ builds' = [builds EXCEPT ![p].value = IndexAfterRetrieval(idx, calls[c].query)]
        ELSE IF calls[c].op = "getIndexDiagnostics"
        THEN /\ calls' = [calls EXCEPT ![c] =
                            [@ EXCEPT !.pc = "done", !.index = p,
                                      !.diagnostics = getIndexDiagnostics(idx, variant,
                                                                          env, disk)]]
             /\ UNCHANGED builds
        ELSE /\ calls' = [calls EXCEPT ![c] = [@ EXCEPT !.pc = "done", !.index = p]]
             /\ UNCHANGED builds
  /\ UNCHANGED <<variant, env, disk, g, resets, started>>

-----------------------------------------------------------------------------
(* The documents and requests of the lifecycle specification *)

TextA == <<"b", " ", "A", "b", " ", " ", "b">>
TextB == <<"b", "-", "c">>

FileA == [infoOk |-> TRUE, pages |-> <<[ok |-> TRUE, raw |-> TextA]>>]
FileB == [infoOk |-> TRUE,
          pages |-> <<[ok |-> TRUE, raw |-> TextB], [ok |-> FALSE, raw |-> <<>>],
                      [ok |-> TRUE, raw |-> <<"c", "\n", "c">>]>>]

PathA == <<"/", "d", "/", "x">>
PathB == <<"y">>

EnvUnset == [defined |-> FALSE, value |-> <<>>]
EnvAB == [defined |-> TRUE, value |-> PathA \o <<",", " ">> \o PathB]

NoFiles == <<>>
DiskOf(f1, f2) ==
  [q \in {fallback("pdftotext"), fallback("pdfjs"), absOf(PathA), absOf(PathB)} |->
     IF q = absOf(PathB) THEN f2 ELSE f1]

Worlds == {NoFiles, DiskOf(FileA, FileB)}

\* the arguments the route passes
RouteCharBudget == 6000
RouteTopK == 8
RouteScanPages == 5

Queries == {<<"c">>}

\* documents appear, disappear and change on the backing store
DiskChange(worlds) ==
  /\ \E d \in worlds \ {disk} : disk' = d
  /\ UNCHANGED <<variant, env, g, builds, calls, resets, started>>

Init ==
  /\ variant \in {"pdftotext", "pdfjs"}
  /\ env = EnvAB
  /\ disk \in Worlds
  /\ g = 0
  /\ builds = <<>>
  /\ calls = [c \in Callers |-> IdleCall]
  /\ resets = 0
  /\ started = <<>>

Next ==
  \/ \E c \in Callers : CallEnsureIndex(c)
  \/ \E c \in Callers : \E q \in Queries :
       CallGetRelevantContext(c, q, RouteCharBudget, RouteTopK)
  \/ \E c \in Callers : CallGetIndexDiagnostics(c)
  \/ \E c \in Callers : CallScanConfiguredPdfs(c, RouteScanPages)
  \/ CallResetIndex
  \/ \E b \in 1..Len(builds) : BuildStep(b)
  \/ \E c \in Callers : Resume(c)
  \/ DiskChange(Worlds)

Spec == Init /\ [][Next]_vars

\* The lifecycle alone: ensureIndex and resetIndex calls and builds over
\* documents that are missing, unreadable or tiny, with the event loop's
\* guarantee that every continuation that is ready to run is run
FileUnreadable == [infoOk |-> FALSE, pages |-> <<[ok |-> FALSE, raw |-> <<>>]>>]
FileC == [infoOk |-> TRUE, pages |-> <<[ok |-> TRUE, raw |-> <<"c">>]>>]

PathC == <<"/", "y">>
EnvAC == [defined |-> TRUE, value |-> PathA \o <<",">> \o PathC]
LifecycleWorlds == {NoFiles, [q \in {PathA, PathC} |-> IF q = PathA THEN FileUnreadable ELSE FileC]}

InitLifecycle ==
  /\ variant \in {"pdftotext", "pdfjs"}
  /\ env = EnvAC
  /\ disk \in LifecycleWorlds
  /\ g = 0
  /\ builds = <<>>
  /\ calls = [c \in Callers |-> IdleCall]
  /\ resets = 0
  /\ started = <<>>

NextLifecycle ==
  \/ \E c \in Callers : CallEnsureIndex(c)
  \/ CallResetIndex
  \/ \E b \in 1..Len(builds) : BuildStep(b)
  \/ \E c \in Callers : Resume(c)
  \/ DiskChange(LifecycleWorlds)

FairSpec ==
  /\ InitLifecycle
  /\ [][NextLifecycle]_vars
  /\ \A b \in 1..MaxCallers : WF_vars(BuildStep(b))
  /\ \A c \in Callers : WF_vars(Resume(c))

\* Retrieval: a getRelevantContext call with any query, budget and topK, and
\* the same call again,
\* over a store with no document, with documents that give no text, and with
\* documents that give three chunks (pdftotext) or two (pdfjs), and with one
\* document that gives one chunk
FileBlank == [infoOk |-> TRUE, pages |-> <<[ok |-> TRUE, raw |-> <<" ", "\n">>]>>]
FileD == [infoOk |-> TRUE,
          pages |-> <<[ok |-> TRUE, raw |-> TextB], [ok |-> TRUE, raw |-> <<"c", "\n", "c">>]>>]

\* one document of one page, which gives one chunk
OneDocument == [q \in {absOf(PathA)} |-> FileA]

RetrievalWorlds ==
  {NoFiles, DiskOf(FileUnreadable, FileBlank), DiskOf(FileA, FileB), DiskOf(FileA, FileD),
   OneDocument}

RetrievalQueries == {<<>>, <<"c">>, <<"q", " ", "B">>, <<"b", " ", "c">>}
CharBudgets == {-1, 5, 17, 18, 40, RouteCharBudget}
TopKs == {-1, 0, 1, RouteTopK}

InitRetrieval ==
  /\ variant \in {"pdftotext", "pdfjs"}
  /\ env = EnvAB
  /\ disk \in RetrievalWorlds
  /\ g = 0
  /\ builds = <<>>
  /\ calls = [c \in Callers |-> IdleCall]
  /\ resets = 0
  /\ started = <<>>

NextRetrieval ==
  \/ \E q \in RetrievalQueries : \E charBudget \in CharBudgets : \E topK \in TopKs :
       CallGetRelevantContext(1, q, charBudget, topK)
  \/ \E c \in Callers \ {1} :
       /\ calls[1].op = "getRelevantContext"
       /\ CallGetRelevantContext(c, calls[1].query, calls[1].charBudget, calls[1].topK)
  \/ \E b \in 1..Len(builds) : BuildStep(b)
  \/ \E c \in Callers : Resume(c)

SpecRetrieval == InitRetrieval /\ [][NextRetrieval]_vars

\* Builds over several configurations: two documents of different names,
\* two paths with the same file name, the same path twice; over stores where
\* every document is readable, the first is missing, or the first is
\* unreadable
PathE == <<"/", "e", "/", "x">>
EnvSameName == [defined |-> TRUE, value |-> PathA \o <<",">> \o PathE]
EnvTwice == [defined |-> TRUE, value |-> PathA \o <<",">> \o PathA]
BuildEnvs == {EnvAB, EnvSameName, EnvTwice}

AllReadable ==
  [q \in {PathA, PathE, absOf(PathB)} |->
     IF q = PathA THEN FileA ELSE IF q = PathE THEN FileD ELSE FileB]
FirstMissing == [q \in {PathE, absOf(PathB)} |-> IF q = PathE THEN FileD ELSE FileB]
FirstUnreadable ==
  [q \in {PathA, PathE, absOf(PathB)} |->
     IF q = PathA THEN FileUnreadable ELSE IF q = PathE THEN FileD ELSE FileB]
BuildWorlds == {NoFiles, AllReadable, FirstMissing, FirstUnreadable}

InitBuild ==
  /\ variant \in {"pdftotext", "pdfjs"}
  /\ env \in BuildEnvs
  /\ disk \in BuildWorlds
  /\ g = 0
  /\ builds = <<>>
  /\ calls = [c \in Callers |-> IdleCall]
  /\ resets = 0
  /\ started = <<>>

NextBuild ==
  \/ \E c \in Callers : CallEnsureIndex(c)
  \/ CallResetIndex
  \/ \E b \in 1..Len(builds) : BuildStep(b)
  \/ \E c \in Callers : Resume(c)

SpecBuild == InitBuild /\ [][NextBuild]_vars

\* The scan next to the lifecycle: scans with several page bounds, over
\* stores where a page of the first or of the second document cannot be
\* extracted, or the first document cannot be read at all
ScanBounds == {1, 2, RouteScanPages}
ScanEnvs == {EnvAB, EnvUnset}
ScanWorlds ==
  {NoFiles, DiskOf(FileA, FileB), DiskOf(FileB, FileA), DiskOf(FileUnreadable, FileD)}

InitScan ==
  /\ variant \in {"pdftotext", "pdfjs"}
  /\ env \in ScanEnvs
  /\ disk \in ScanWorlds
  /\ g = 0
  /\ builds = <<>>
  /\ calls = [c \in Callers |-> IdleCall]
  /\ resets = 0
  /\ started = <<>>

NextScan ==
  \/ \E c \in Callers : CallEnsureIndex(c)
  \/ \E c \in Callers : \E m \in ScanBounds : CallScanConfiguredPdfs(c, m)
  \/ CallResetIndex
  \/ \E b \in 1..Len(builds) : BuildStep(b)
  \/ \E c \in Callers : Resume(c)

SpecScan == InitScan /\ [][NextScan]_vars

-----------------------------------------------------------------------------
(* POST /api/analyze *)

\* an optional value of the response: left out (undefined) or present
Undefined == [defined |-> FALSE]
Defined(v) == [defined |-> TRUE, value |-> v]

\* the literal parts of the template strings; a template `${x}literal` is
\* the pair <<x, literal>>
ContextGuidance ==
  "\n\nWhen answering, base your judgment on the provided excerpts where relevant. If the excerpts are irrelevant, state your reasoning without them."
BoundingBoxInstructions == "\n\nIMPORTANT: If you identify specific areas in the image ..."
NoTextualOutput == "(No textual output)"

\* a systemPrefix built whatever was retrieved
systemPrefixOfAnyContext(retrieved) ==
  Defined(<<retrieved.text, ContextGuidance>>)

\* `retrieved?.text ? ... : undefined`
systemPrefix(retrieved) ==
  IF ~retrieved.isNull /\ retrieved.text # <<>>
  THEN Defined(<<retrieved.text, ContextGuidance>>)
  ELSE Undefined

enhancedPrompt(prompt) == <<prompt, BoundingBoxInstructions>>

\* the content of the one user message sent to the model
MessageContent(prefix, prompt, imageBase64) ==
  (IF prefix.defined THEN <<[type |-> "text", text |-> prefix.value]>> ELSE <<>>)
  \o <<[type |-> "text", text |-> enhancedPrompt(prompt)],
       [type |-> "image", data |-> imageBase64]>>

\* `extractTextFromMessageContent(message) || "(No textual output)"`
resultText(reply) == IF reply.text = "" THEN NoTextualOutput ELSE reply.text

ErrorResponse(status, msg) == [status |-> status, error |-> msg]

\* the body of the successful response; the replies drawn hold no
\* BOUNDING_BOX line
OkResponse(call, diag, scan) ==
  [status |-> 200,
   result |-> resultText(call.reply),
   boundingBoxes |-> <<>>,
   contextMeta |-> IF call.context.isNull THEN <<>> ELSE call.context.segments,
   contextText |-> IF call.debug
                   THEN Defined([isNull |-> call.context.isNull, text |-> call.context.text])
                   ELSE Undefined,
   indexDiagnostics |-> IF call.debug THEN Defined(diag) ELSE Undefined,
   pageScan |-> scan]

\* POST up to `await getRelevantContext(prompt, 6000, 8)`: the body and the
\* key are checked, ?reindex=1 resets the index, and getRelevantContext runs
\* up to its `await ensureIndex()`
Post(c, reindex, debug, imageBase64, prompt, apiKey) ==
  /\ IsNextCall(c)
  /\ ~TurnPending
  /\ IF imageBase64 = <<>> \/ prompt = <<>>
     THEN /\ calls' = [calls EXCEPT ![c] =
                         [@ EXCEPT !.op = "POST", !.pc = "done", !.stage = "rejected",
                                   !.epoch = resets,
                                   !.response = ErrorResponse(400, "Invalid request body")]]
          /\ UNCHANGED <<g, builds, resets, started>>
     ELSE IF ~apiKey
     THEN /\ calls' = [calls EXCEPT ![c] =
                         [@ EXCEPT !.op = "POST", !.pc = "done", !.stage = "rejected",
                                   !.epoch = resets,
                                   !.response = ErrorResponse(500, "Missing ANTHROPIC_API_KEY")]]
          /\ UNCHANGED <<g, builds, resets, started>>
     ELSE LET cache == IF reindex THEN resetIndex(g) ELSE g
              r == ensureIndex(cache, builds, variant, env, disk)
          IN /\ reindex => resets < MaxResets
             /\ resets' = IF reindex THEN resets + 1 ELSE resets
             /\ g' = r.g
             /\ builds' = r.builds
             /\ started' = IF Len(r.builds) > Len(builds)
                           THEN Append(started, resets') ELSE started
             /\ calls' = [calls EXCEPT ![c] =
                            [@ EXCEPT !.op = "POST", !.pc = "await", !.stage = "context",
                                      !.p = r.promise, !.epoch = resets',
                                      !.query = prompt, !.charBudget = RouteCharBudget,
                                      !.topK = RouteTopK, !.debug = debug,
                                      !.imageBase64 = imageBase64]]
  /\ UNCHANGED <<variant, env, disk>>

\* POST from the return of getRelevantContext to `await
\* anthropic.messages.create(...)`
PostRetrieved(c) ==
  /\ calls[c].op = "POST" /\ calls[c].pc = "await" /\ calls[c].stage = "context"
  /\ builds[calls[c].p].status = "fulfilled"
  /\ LET p == calls[c].p
         idx == builds[p].value
         retrieved == getRelevantContext(idx, calls[c].query, calls[c].charBudget,
                                         calls[c].topK)
     IN /\ calls' = [calls EXCEPT ![c] =
                       [@ EXCEPT !.pc = "model", !.stage = "model", !.index = p,
                                 !.context = retrieved,
                                 !.sent = MessageContent(systemPrefix(retrieved),
                                                         calls[c].query,
                                                         calls[c].imageBase64)]]
        /\ builds' = [builds EXCEPT ![p].value = IndexAfterRetrieval(idx, calls[c].query)]
  /\ UNCHANGED <<variant, env, disk, g, resets, started>>

\* POST from the model's reply to `await getIndexDiagnostics()`, which runs up
\* to its `await ensureIndex()`; a rejected call ends in the catch
ModelReplies(c, reply) ==
  /\ calls[c].op = "POST" /\ calls[c].pc = "model"
  /\ ~TurnPending
  /\ IF reply.threw
     THEN /\ calls' = [calls EXCEPT ![c] =
                         [@ EXCEPT !.pc = "done", !.stage = "failed", !.reply = reply,
                                   !.response = ErrorResponse(500, reply.text)]]
          /\ UNCHANGED <<g, builds, started>>
     ELSE LET r == ensureIndex(g, builds, variant, env, disk)
          IN /\ g' = r.g
             /\ builds' = r.builds
             /\ started' = IF Len(r.builds) > Len(builds)
                           THEN Append(started, resets) ELSE started
             /\ calls' = [calls EXCEPT ![c] =
                            [@ EXCEPT !.pc = "await", !.stage = "diagnostics",
                                      !.p = r.promise, !.reply = reply]]
  /\ UNCHANGED <<variant, env, disk, resets>>

\* POST from the return of ensureIndex inside getIndexDiagnostics to the
\* response
PostDiagnosed(c) ==
  /\ calls[c].op = "POST" /\ calls[c].pc = "await" /\ calls[c].stage = "diagnostics"
  /\ builds[calls[c].p].status = "fulfilled"
  /\ LET diag == getIndexDiagnostics(builds[calls[c].p].value, variant, env, disk)
         scan == IF calls[c].debug
                 THEN Defined(scanConfiguredPdfs(variant, env, disk, RouteScanPages))
                 ELSE Undefined
     IN calls' = [calls EXCEPT ![c] =
                    [@ EXCEPT !.pc = "done", !.stage = "responded", !.diagnostics = diag,
                              !.response = OkResponse(calls[c], diag, scan)]]
  /\ UNCHANGED <<variant, env, disk, g, builds, resets, started>>

\* the requests: a prompt with a token of the documents, and a missing prompt
\* or image; the store stays as it is while they are served
Prompts == {<<>>, <<"c">>}
Images == {<<>>, <<"i">>}
Replies ==
  {[threw |-> TRUE, text |-> "overloaded"], [threw |-> FALSE, text |-> ""],
   [threw |-> FALSE, text |-> "ok"]}

InitRoute ==
  /\ variant \in {"pdftotext", "pdfjs"}
  /\ env = EnvAB
  /\ disk \in Worlds
  /\ g = 0
  /\ builds = <<>>
  /\ calls = [c \in Callers |-> IdleCall]
  /\ resets = 0
  /\ started = <<>>

NextRoute ==
  \/ \E c \in Callers : \E reindex, debug, apiKey \in BOOLEAN :
       \E imageBase64 \in Images : \E prompt \in Prompts :
         Post(c, reindex, debug, imageBase64, prompt, apiKey)
  \/ \E c \in Callers : PostRetrieved(c)
  \/ \E c \in Callers : \E reply \in Replies : ModelReplies(c, reply)
  \/ \E c \in Callers : PostDiagnosed(c)
  \/ \E b \in 1..Len(builds) : BuildStep(b)

SpecRoute == InitRoute /\ [][NextRoute]_vars

-----------------------------------------------------------------------------
(* Builds over long pages *)

\* a page of n characters: words of six letters, one space between them
LongText(n) == [i \in 1..n |-> IF i % 7 = 0 THEN " " ELSE IF i % 7 = 3 THEN "Z" ELSE "z"]

\* a page of n characters with two spaces between the words, which
\* normalizeWhitespace shortens
RaggedText(n) ==
  [i \in 1..n |-> IF i % 7 = 0 \/ i % 7 = 1 THEN " " ELSE IF i % 7 = 3 THEN "Z" ELSE "z"]

FileLong(n) == [infoOk |-> TRUE, pages |-> <<[ok |-> TRUE, raw |-> LongText(n)]>>]
FileRagged ==
  [infoOk |-> TRUE,
   pages |-> <<[ok |-> TRUE, raw |-> RaggedText(2 * targetChunkChars + 400)]>>]
FilePages ==
  [infoOk |-> TRUE,
   pages |-> <<[ok |-> TRUE, raw |-> LongText(targetChunkChars + 1)],
               [ok |-> TRUE, raw |-> <<" ", "\n">>],
               [ok |-> TRUE, raw |-> LongText(5)]>>]

\* pages just below, at and just above one and two windows of
\* targetChunkChars, a blank page, and a blank page between two others
ChunkWorlds ==
  {DiskOf(FileLong(targetChunkChars), FileLong(targetChunkChars + 1)),
   DiskOf(FileLong(2 * targetChunkChars), FileLong(2 * targetChunkChars + 1)),
   DiskOf(FileLong(targetChunkChars - 1), FilePages),
   DiskOf(FileBlank, FileRagged)}

InitChunk ==
  /\ variant \in {"pdftotext", "pdfjs"}
  /\ env = EnvAB
  /\ disk \in ChunkWorlds
  /\ g = 0
  /\ builds = <<>>
  /\ calls = [c \in Callers |-> IdleCall]
  /\ resets = 0
  /\ started = <<>>

NextChunk ==
  \/ \E c \in Callers : CallEnsureIndex(c)
  \/ CallResetIndex
  \/ \E b \in 1..Len(builds) : BuildStep(b)
  \/ \E c \in Callers : Resume(c)

SpecChunk == InitChunk /\ [][NextChunk]_vars

-----------------------------------------------------------------------------
(* Retrievals with any short query *)

\* a letter, a capital, a digit, two kinds of whitespace and a punctuation mark
Alphabet == {"a", "B", "1", " ", "\n", "-"}

\* the texts of at most MaxTextLen characters
Texts == UNION {[1..n -> Alphabet] : n \in 0..MaxTextLen}

InitTokenize ==
  /\ variant \in {"pdftotext", "pdfjs"}
  /\ env = EnvAB
  /\ disk = OneDocument
  /\ g = 0
  /\ builds = <<>>
  /\ calls = [c \in Callers |-> IdleCall]
  /\ resets = 0
  /\ started = <<>>

NextTokenize ==
  \/ \E q \in Texts : CallGetRelevantContext(1, q, RouteCharBudget, RouteTopK)
  \/ \E c \in Callers \ {1} :
       /\ calls[1].op = "getRelevantContext"
       /\ CallGetRelevantContext(c, calls[1].query, calls[1].charBudget, calls[1].topK)
  \/ \E b \in 1..Len(builds) : BuildStep(b)
  \/ \E c \in Callers : Resume(c)

SpecTokenize == InitTokenize /\ [][NextTokenize]_vars

-----------------------------------------------------------------------------
(* Lifecycle claims *)

\* the calls that went through ensureIndex()
Ensured == {c \in Callers : calls[c].pc # "idle" /\ calls[c].op # "scanConfiguredPdfs"}

\* the calls whose await of ensureIndex() has returned
Returned == {c \in Ensured : calls[c].pc = "done"}

\* the IndexState a returned call holds
IndexOf(c) == builds[calls[c].index].value

\* C1: in every interleaving of ensureIndex() and resetIndex() calls at most
\* one execution of buildIndex is in flight at any time, also when resetIndex()
\* is called during a build and ensureIndex() is called again before the build
\* finishes.
C1_AtMostOneBuildInFlight == Cardinality(InFlight) <= 1

\* C2: the ensureIndex() callers that arrive with no resetIndex() between them
\* await the same build and receive the identical IndexState, and no second
\* build is started for them.
C2_SingleFlight ==
  /\ \A c1, c2 \in Ensured :
       calls[c1].epoch = calls[c2].epoch =>
         /\ calls[c1].p = calls[c2].p
         /\ (c1 \in Returned /\ c2 \in Returned =>
               /\ calls[c1].index = calls[c2].index
               /\ IndexOf(c1) = IndexOf(c2))
  /\ \A b1, b2 \in 1..Len(builds) : started[b1] = started[b2] => b1 = b2

C2_TwoCallersShareABuild ==
  \E c1, c2 \in Returned :
    /\ c1 # c2
    /\ calls[c1].epoch = calls[c2].epoch
    /\ IndexOf(c1).totalChunks > 0

\* C3: after resetIndex() the next ensureIndex() call starts a new build and
\* returns that build's result, never the Index cached before the reset nor
\* the result of a build that was in flight at the reset.
C3_FreshBuildAfterReset ==
  \A c \in Ensured :
    /\ calls[c].p \in 1..Len(builds)
    /\ started[calls[c].p] = calls[c].epoch
    /\ \A c0 \in Ensured : calls[c0].epoch < calls[c].epoch => calls[c0].p # calls[c].p
    /\ c \in Returned => calls[c].index = calls[c].p

C3_ReturnedAfterResetDuringBuild ==
  \E c \in Returned :
    /\ calls[c].epoch >= 1
    /\ \E c0 \in Ensured : calls[c0].epoch < calls[c].epoch /\ calls[c0].pc = "await"

\* C4: no build starts before the first ensureIndex() call, and after any
\* sequence of calls the number of builds started is at most 1 + the number
\* of resetIndex() calls.
C4_LazyAndCached ==
  /\ Ensured = {} => builds = <<>>
  /\ Len(builds) <= 1 + resets

C4_CachedIndexReused ==
  /\ Cardinality(Returned) >= 2
  /\ Len(builds) = 1
  /\ builds[1].value.totalChunks > 0
  /\ \E c \in Returned : calls[c].op = "getRelevantContext"

\* C5: once a build has completed, no step of any call changes its
\* IndexState: the chunk sequence, the df table and totalChunks stay as they
\* were built, across retrievals, diagnostics, scans and resets.
C5_BuiltIndexNeverMutated ==
  [][\A b \in 1..Len(builds) :
       builds[b].status = "fulfilled" =>
         /\ b \in 1..Len(builds')
         /\ builds'[b].status = "fulfilled"
         /\ builds'[b].value = builds[b].value]_vars

C5_ReadAcrossAReset ==
  \E c \in Returned :
    /\ calls[c].op = "getRelevantContext"
    /\ ~calls[c].context.isNull
    /\ IndexOf(c).totalChunks >= 3
    /\ resets > calls[c].epoch

\* C6: a build, once started, runs to completion, so every call that awaits
\* ensureIndex() is eventually resumed with the IndexState of its build,
\* whatever documents are missing or unreadable and whatever resets happen
\* meanwhile.
C6_EveryEnsureResolves ==
  \A c \in Callers :
    (calls[c].pc = "await") ~>
      (/\ calls[c].pc = "done"
       /\ calls[c].index = calls[c].p
       /\ calls[c].index \in 1..Len(builds)
       /\ builds[calls[c].index].status = "fulfilled")

C6_ResolvedAfterResetDuringBuild ==
  \E c \in Returned :
    /\ resets > calls[c].epoch
    /\ g # calls[c].index
    /\ IndexOf(c).totalChunks > 0

\* the tokens of chunk i of an IndexState
TokensOf(idx, i) == Range(tokenize(idx.chunks[i].text))

\* C7: in every IndexState that a build produces, df[t] is the number of
\* chunks whose tokenized text contains t, a token in no chunk has no entry,
\* and totalChunks is the number of chunks; also after a rebuild.
C7_DfMatchesChunks ==
  \A b \in 1..Len(builds) :
    builds[b].status = "fulfilled" =>
      LET idx == builds[b].value
          n == Len(idx.chunks)
      IN /\ idx.totalChunks = n
         /\ DOMAIN idx.df = UNION {TokensOf(idx, i) : i \in 1..n}
         /\ \A t \in DOMAIN idx.df :
              idx.df[t] = Cardinality({i \in 1..n : t \in TokensOf(idx, i)})

C7_RebuiltWithRepeatedToken ==
  \E c \in Returned :
    /\ calls[c].epoch >= 1
    /\ \E i \in 1..Len(IndexOf(c).chunks) :
         LET t == tokenize(IndexOf(c).chunks[i].text)
         IN \E j, k \in 1..Len(t) : j # k /\ t[j] = t[k]

-----------------------------------------------------------------------------
(* Retrieval claims *)

\* the getRelevantContext calls that have returned
Retrieved == {c \in Returned : calls[c].op = "getRelevantContext"}

\* the chunks of the index whose block is in the result of call c when the
\* result holds the first n chunks of the index
FirstBlocks(c, n) == [i \in 1..n |-> Block(IndexOf(c).chunks[i])]

SegmentOf(chunk) ==
  [docName |-> chunk.docName, page |-> chunk.page, charCount |-> Len(Block(chunk))]

RECURSIVE SumCharCount(_, _)
SumCharCount(segments, k) ==
  IF k > Len(segments) THEN 0 ELSE segments[k].charCount + SumCharCount(segments, k + 1)

\* every chunk of the index of call c scores 0 for the query of call c
AllScoresZero(c) ==
  \A i \in 1..Len(IndexOf(c).chunks) :
    ~ScorePositive(scoreChunk(tokenize(calls[c].query), IndexOf(c).chunks[i],
                              IndexOf(c).df, IndexOf(c).totalChunks))

\* the result of call c is the first n chunks of the index, in index order
IsFirstChunks(c, n) ==
  /\ n \in 1..Len(IndexOf(c).chunks)
  /\ ~calls[c].context.isNull
  /\ calls[c].context.segments = [i \in 1..n |-> SegmentOf(IndexOf(c).chunks[i])]
  /\ calls[c].context.text = ContextHeader \o Join(FirstBlocks(c, n), BlockSeparator)

\* C8: getRelevantContext returns none whenever the index holds zero chunks,
\* for every query, charBudget and topK.
C8_EmptyIndexGivesNone ==
  \A c \in Retrieved :
    Len(IndexOf(c).chunks) = 0 =>
      /\ calls[c].context.isNull
      /\ calls[c].context = NullContext

C8_RetrievedFromEmptyIndex ==
  \E c \in Retrieved :
    /\ Len(IndexOf(c).chunks) = 0
    /\ disk # NoFiles
    /\ calls[c].charBudget = RouteCharBudget
    /\ calls[c].topK = RouteTopK

\* C9 as stated, for a positive charBudget and topK: when the index is
\* non-empty and every chunk scores 0, the result is not none and its blocks
\* are the first chunks of the index in natural order, at most topK of them.
C9_ZeroScoresAlwaysGiveBlocks ==
  \A c \in Retrieved :
    /\ Len(IndexOf(c).chunks) > 0
    /\ AllScoresZero(c)
    /\ calls[c].charBudget > 0
    /\ calls[c].topK > 0
    => \E n \in 1..Len(IndexOf(c).chunks) : n <= calls[c].topK /\ IsFirstChunks(c, n)

\* C9 amended: when the index is non-empty and every chunk scores 0, the
\* result is none if slice(0, topK) of the chunks is empty (topK is 0, or is
\* negative and leaves no chunk) or the block of the first chunk plus 4
\* exceeds charBudget; otherwise it is not none and its blocks are the first
\* chunks of the index in natural order, at most as many as slice(0, topK)
\* holds (topK of them for a positive topK), as many as fit.
C9_ZeroScoresGiveFirstChunksThatFit ==
  \A c \in Retrieved :
    Len(IndexOf(c).chunks) > 0 /\ AllScoresZero(c) =>
      IF Len(Slice0(IndexOf(c).chunks, calls[c].topK)) = 0
         \/ Len(Block(IndexOf(c).chunks[1])) + 4 > calls[c].charBudget
      THEN calls[c].context.isNull
      ELSE \E n \in 1..Len(IndexOf(c).chunks) :
             /\ n <= Len(Slice0(IndexOf(c).chunks, calls[c].topK))
             /\ IsFirstChunks(c, n)
             /\ SumCharCount(calls[c].context.segments, 1) + 4 * n <= calls[c].charBudget
             /\ \/ n = Len(IndexOf(c).chunks)
                \/ n = Len(Slice0(IndexOf(c).chunks, calls[c].topK))
                \/ SumCharCount(calls[c].context.segments, 1) + 4 * n
                     + Len(Block(IndexOf(c).chunks[n + 1])) + 4 > calls[c].charBudget

C9_FallbackCutByTopK ==
  \E c \in Retrieved :
    /\ Len(IndexOf(c).chunks) >= 2
    /\ Len(tokenize(calls[c].query)) > 0
    /\ AllScoresZero(c)
    /\ calls[c].topK = 1
    /\ IsFirstChunks(c, 1)

\* the chunks getRelevantContext selects for call c
PickedOf(c) ==
  Picked(ScoredAll(IndexOf(c), tokenize(calls[c].query)), calls[c].topK)

\* C10: the segments' charCount add up to at most charBudget, each charCount
\* being the length of a block of the text, and the result is none when no
\* block of the selected chunks fits in charBudget.
C10_BlocksWithinBudget ==
  \A c \in Retrieved :
    LET r == calls[c].context
        n == Len(r.segments)
    IN /\ ~r.isNull =>
            /\ n >= 1
            /\ SumCharCount(r.segments, 1) <= calls[c].charBudget
            /\ Len(r.text) = Len(ContextHeader) + SumCharCount(r.segments, 1)
                               + (n - 1) * Len(BlockSeparator)
       /\ (\A k \in 1..Len(PickedOf(c)) :
             Len(Block(PickedOf(c)[k].c)) > calls[c].charBudget) => r.isNull

C10_BudgetCutsTheBlocks ==
  \E c \in Retrieved :
    /\ Len(calls[c].context.segments) = 2
    /\ Len(PickedOf(c)) = 3
    /\ calls[c].charBudget = 40

\* C11: the length of the text of every non-none result, instructional
\* header, blocks and separators together, is at most charBudget.
C11_TextWithinBudget ==
  \A c \in Retrieved :
    ~calls[c].context.isNull => Len(calls[c].context.text) <= calls[c].charBudget

\* C12, its last part: getRelevantContext never returns context blocks for a
\* topK that is not positive.
C12_NoBlocksForNonPositiveTopK ==
  \A c \in Retrieved :
    calls[c].topK <= 0 => Len(calls[c].context.segments) = 0

\* the score of chunk i of the index of call c for the query of call c
ScoreOf(c, i) ==
  scoreChunk(tokenize(calls[c].query), IndexOf(c).chunks[i], IndexOf(c).df,
             IndexOf(c).totalChunks)

\* the scores of the chunks of the index of call c, by position
ScoresOf(c) == [i \in 1..Len(IndexOf(c).chunks) |-> ScoreOf(c, i)]

\* the positions 1..Len(sc) by descending score sc and, among equal scores,
\* by ascending position
RankBy(sc) ==
  CHOOSE f \in [1..Len(sc) -> 1..Len(sc)] :
    \A k, l \in 1..Len(sc) :
      k < l => \/ ScoreGreater(sc[f[k]], sc[f[l]])
               \/ (~ScoreGreater(sc[f[l]], sc[f[k]]) /\ f[k] < f[l])

\* the positions of the chunks of the index of call c in ranking order
RankOf(c) == Once(RankBy, ScoresOf(c))

\* whether ranked is the chunks with their scores sc in the order rank
IsRanking(ranked, chunks, sc, rank) ==
  ranked = [k \in 1..Len(chunks) |-> [c |-> chunks[rank[k]], s |-> sc[rank[k]]]]

\* whether segments are those of the chunks in the order rank, from the top
FollowRanking(segments, chunks, rank) ==
  \A k \in 1..Len(segments) : segments[k] = SegmentOf(chunks[rank[k]])

\* C13: the ranking is by descending score with equal scores in the index's
\* chunk order, and the segments of a result follow that ranking.
C13_RankedByScoreThenIndexOrder ==
  \A c \in Retrieved :
    /\ Once(LAMBDA sc : IsRanking(ScoredAll(IndexOf(c), tokenize(calls[c].query)),
                                  IndexOf(c).chunks, sc, RankBy(sc)),
            ScoresOf(c))
    /\ Once(LAMBDA rank : FollowRanking(calls[c].context.segments, IndexOf(c).chunks,
                                        rank),
            RankOf(c))

C13_TiedChunksInIndexOrder ==
  \E c \in Retrieved :
    /\ Len(calls[c].context.segments) = 3
    /\ ScorePositive(ScoreOf(c, 1))
    /\ ~ScoreGreater(ScoreOf(c, 1), ScoreOf(c, 2))
    /\ ~ScoreGreater(ScoreOf(c, 2), ScoreOf(c, 1))
    /\ RankOf(c) = <<1, 2, 3>>

\* the positions of the chunks that score positively
PositiveOf(sc) == {i \in 1..Len(sc) : ScorePositive(sc[i])}

\* whether picked is the m highest-ranked chunks, all of positive score
IsTopPositive(picked, chunks, sc, rank, m) ==
  /\ picked = [k \in 1..m |-> [c |-> chunks[rank[k]], s |-> sc[rank[k]]]]
  /\ \A k \in 1..m : rank[k] \in PositiveOf(sc)

\* C14 for call c with scores sc: with a chunk of positive score and
\* topK >= 0 the selection is the min(topK, number of positive scores)
\* highest-ranked chunks, all of positive score, and the result holds no
\* other; it holds all of them when charBudget leaves room.
SelectsPositiveOnly(c, sc) ==
  LET m == Min(calls[c].topK, Cardinality(PositiveOf(sc)))
      n == Len(calls[c].context.segments)
  IN /\ IsTopPositive(PickedOf(c), IndexOf(c).chunks, sc, RankBy(sc), m)
     /\ n <= m
     /\ FollowRanking(calls[c].context.segments, IndexOf(c).chunks, RankBy(sc))
     /\ calls[c].charBudget = RouteCharBudget => n = m

\* C14: when a chunk scores positively, the chunks selected are exactly the
\* min(topK, number of positive-score chunks) highest-ranked positive-score
\* chunks, never one of score zero.
C14_OnlyPositiveScoresSelected ==
  \A c \in Retrieved :
    Once(LAMBDA sc : (PositiveOf(sc) # {} /\ calls[c].topK >= 0) => SelectsPositiveOnly(c, sc),
         ScoresOf(c))

C14_FewerPositiveThanTopK ==
  \E c \in Retrieved :
    /\ Cardinality(PositiveOf(ScoresOf(c))) = 2
    /\ Len(IndexOf(c).chunks) = 3
    /\ calls[c].topK = RouteTopK
    /\ Len(calls[c].context.segments) = 2

\* the running total after the first n blocks of picked: each block's
\* length plus the overhead of 4
RECURSIVE UsedBy(_, _)
UsedBy(picked, n) ==
  IF n = 0 THEN 0 ELSE UsedBy(picked, n - 1) + Len(Block(picked[n].c)) + 4

\* whether result r is the first n blocks of picked, for the budget given:
\* they fit, and the next one, if there is one, does not
IsGreedyPrefix(r, picked, n, charBudget) ==
  /\ n <= Len(picked)
  /\ r.isNull <=> n = 0
  /\ r.segments = [k \in 1..n |-> SegmentOf(picked[k].c)]
  /\ ~r.isNull => r.text = ContextHeader \o Join([k \in 1..n |-> Block(picked[k].c)],
                                                  BlockSeparator)
  /\ n > 0 => UsedBy(picked, n) <= charBudget
  /\ n < Len(picked) => UsedBy(picked, n + 1) > charBudget

\* C15: the included blocks are a prefix of the selected ranked chunks, each
\* appended while the running total of block length plus 4 stays within
\* charBudget; the walk stops at the first block that would exceed it.
C15_GreedyPrefix ==
  \A c \in Retrieved :
    Once(LAMBDA picked : IsGreedyPrefix(calls[c].context, picked,
                                        Len(calls[c].context.segments),
                                        calls[c].charBudget),
         PickedOf(c))

C15_StoppedBeforeABlockThatFits ==
  \E c \in Retrieved :
    /\ calls[c].charBudget > 0
    /\ Len(PickedOf(c)) = 3
    /\ Len(calls[c].context.segments) = 0
    /\ Len(Block(PickedOf(c)[2].c)) + 4 <= calls[c].charBudget

\* where block k starts in the text of a result with the segments given:
\* after the header, the blocks before it and their separators
BlockStart(segments, k) ==
  Len(ContextHeader) + SumCharCount(SubSeq(segments, 1, k - 1), 1)
    + (k - 1) * Len(BlockSeparator) + 1

\* block k as it appears in the text, by the charCount of the segments
BlockInText(r, k) ==
  SubSeq(r.text, BlockStart(r.segments, k),
         BlockStart(r.segments, k) + r.segments[k].charCount - 1)

\* what follows block k in the text: the separator, or nothing after the last
AfterBlockInText(r, k) ==
  SubSeq(r.text, BlockStart(r.segments, k) + r.segments[k].charCount,
         IF k = Len(r.segments) THEN Len(r.text) ELSE BlockStart(r.segments, k + 1) - 1)

\* whether the segments of r are parallel to the blocks of its text, the
\* blocks being those of the chunks in the order rank
IsParallel(r, chunks, rank) ==
  /\ SubSeq(r.text, 1, Len(ContextHeader)) = ContextHeader
  /\ \A k \in 1..Len(r.segments) :
       /\ r.segments[k].docName = chunks[rank[k]].docName
       /\ r.segments[k].page = chunks[rank[k]].page
       /\ BlockInText(r, k) = BlockHeader(chunks[rank[k]]) \o <<"\n">>
                                \o normalizeWhitespace(chunks[rank[k]].text)
       /\ Len(BlockInText(r, k)) = r.segments[k].charCount
       /\ AfterBlockInText(r, k)
            = IF k = Len(r.segments) THEN <<>> ELSE BlockSeparator

\* C16: in every non-none result the segments are parallel to the blocks of
\* the text: one per block, at least 1 and (for topK >= 0) at most topK, in
\* the same order, with the block's docName, page and length in the text.
C16_SegmentsParallelToBlocks ==
  \A c \in Retrieved :
    ~calls[c].context.isNull =>
      /\ Len(calls[c].context.segments) >= 1
      /\ calls[c].topK >= 0 => Len(calls[c].context.segments) <= calls[c].topK
      /\ Once(LAMBDA rank : IsParallel(calls[c].context, IndexOf(c).chunks, rank),
              RankOf(c))

C16_TwoBlocksOutOfIndexOrder ==
  \E c \in Retrieved :
    /\ Len(calls[c].context.segments) = 2
    /\ calls[c].context.segments[1].page = 3
    /\ calls[c].context.segments[2].page = 1
    /\ calls[c].topK = RouteTopK

\* the calls over the one-document corpus whose query has a token of the
\* chunk, with the route's charBudget and topK
OneChunkHit ==
  {c \in Retrieved :
     /\ disk = OneDocument
     /\ Len(IndexOf(c).chunks) = 1
     /\ Range(tokenize(calls[c].query)) \cap TokensOf(IndexOf(c), 1) # {}
     /\ calls[c].charBudget = RouteCharBudget
     /\ calls[c].topK = RouteTopK}

\* C17 as stated: for one document of one page forming a single chunk and a
\* query with a token of the chunk, the result has one segment with page 1,
\* the document's name and charCount = header length + chunk text length.
C17_CharCountIsHeaderPlusText ==
  \A c \in OneChunkHit :
    calls[c].context.segments
      = <<[docName |-> basename(absOf(PathA)), page |-> 1,
           charCount |-> Len(BlockHeader(IndexOf(c).chunks[1]))
                           + Len(IndexOf(c).chunks[1].text)]>>

\* C17 amended: the one segment has page 1, the document's name and
\* charCount = header length + 1 + chunk text length, the 1 being the line
\* break between the header and the text of the block.
C17_CharCountIsHeaderNewlineText ==
  \A c \in OneChunkHit :
    /\ ~calls[c].context.isNull
    /\ calls[c].context.segments
         = <<[docName |-> basename(absOf(PathA)), page |-> 1,
              charCount |-> Len(BlockHeader(IndexOf(c).chunks[1])) + 1
                              + Len(IndexOf(c).chunks[1].text)]>>

C17_OneChunkOneSegment ==
  \E c \in OneChunkHit :
    /\ Len(calls[c].context.segments) = 1
    /\ calls[c].context.segments[1].charCount = 14
    /\ IndexOf(c).chunks[1].text = <<"b", " ", "A", "b", " ", "b">>

\* whether calls c1 and c2 are the same request against the same index
SameRequest(c1, c2) ==
  /\ calls[c1].index = calls[c2].index
  /\ calls[c1].epoch = calls[c2].epoch
  /\ calls[c1].query = calls[c2].query
  /\ calls[c1].charBudget = calls[c2].charBudget
  /\ calls[c1].topK = calls[c2].topK

-----------------------------------------------------------------------------
(* Build claims *)

\* the IndexStates that builds have produced
Built == {builds[b].value : b \in {k \in 1..Len(builds) : builds[k].status = "fulfilled"}}

\* C19: no two chunks of a built index have the same id, whatever documents
\* are configured, two paths with the same file name or the same path twice
\* included.
C19_ChunkIdsUnique ==
  \A idx \in Built :
    \A i, j \in 1..Len(idx.chunks) : idx.chunks[i].id = idx.chunks[j].id => i = j

\* whether the extraction of a file fails: pdfjs throws at the first thing
\* it cannot read; of the pdftotext commands each one run for the file fails
ExtractionFails(v, file) ==
  IF v = "pdfjs" \/ ~file.infoOk
  THEN ~file.infoOk \/ \E p \in 1..Len(file.pages) : ~file.pages[p].ok
  ELSE \A p \in 1..Len(file.pages) : ~file.pages[p].ok

\* whether a file can be read in full
Readable(file) == file.infoOk /\ \A p \in 1..Len(file.pages) : file.pages[p].ok

\* the chunks of an IndexState that come from the document at abs
ChunksFrom(idx, abs) == {i \in 1..Len(idx.chunks) : idx.chunks[i].docPath = abs}

\* whether every word of every page of a readable file at abs is in a chunk
\* of idx from that document
HoldsTextOf(idx, abs, file) ==
  \A p \in 1..Len(file.pages) :
    \A t \in Range(tokenize(file.pages[p].raw)) :
      \E i \in ChunksFrom(idx, abs) : t \in TokensOf(idx, i)

\* the builds that ran to their end; the store does not change under them
BuiltOverDisk == {b \in 1..Len(builds) : builds[b].status = "fulfilled"}

\* C20: in a built index a configured location that does not exist or whose
\* extraction fails has no chunk, and the text of every configured document
\* that can be read is there.
C20_BestEffortPerDocument ==
  \A b \in BuiltOverDisk :
    \A k \in 1..Len(builds[b].paths) :
      LET abs == absOf(builds[b].paths[k])
      IN IF ~existsSync(disk, abs) THEN ChunksFrom(builds[b].value, abs) = {}
         ELSE /\ ExtractionFails(variant, disk[abs]) =>
                   ChunksFrom(builds[b].value, abs) = {}
              /\ Readable(disk[abs]) => HoldsTextOf(builds[b].value, abs, disk[abs])

C20_BuiltPastAnUnreadableDocument ==
  \E c \in Returned :
    /\ disk = FirstUnreadable
    /\ builds[calls[c].index].paths = <<PathA, PathE>>
    /\ ChunksFrom(IndexOf(c), PathA) = {}
    /\ ChunksFrom(IndexOf(c), PathE) # {}

-----------------------------------------------------------------------------
(* Diagnostics, scan and route claims *)

\* whether the build that call c awaits was started by an earlier call: the
\* calls are numbered in the order in which they are issued
BuildStartedBefore(c) ==
  \E k \in 1..(c - 1) : k \in Ensured /\ calls[k].p = calls[c].p

\* C21: getIndexDiagnostics() never starts an index build that an earlier
\* ensureIndex() had not already started, on a cold cache or right after
\* resetIndex() either.
C21_DiagnosticsStartsNoBuild ==
  \A c \in Ensured : calls[c].op = "getIndexDiagnostics" => BuildStartedBefore(c)

\* the scans that have reported
Scanned == {c \in Callers : calls[c].op = "scanConfiguredPdfs" /\ calls[c].pc = "done"}

\* the pages of the document at a configured path that a scan bounded by
\* maxPages has to report
PagesToScan(abs, maxPages) == 1..Min(maxPages, Len(disk[abs].pages))

\* whether the report of one document has an entry for page pg
HasEntry(doc, pg) == \E k \in 1..Len(doc.pages) : doc.pages[k].page = pg

\* whether the report of one document has an entry with an error for page pg
HasErrorEntry(doc, pg) ==
  \E k \in 1..Len(doc.pages) : doc.pages[k].page = pg /\ doc.pages[k].error

\* C22: a failure extracting one page does not abort the scan: in a document
\* that exists and whose page count is known, the failing page has its own
\* entry with an error, every page up to the page bound has an entry, and every
\* configured document is reported.
C22_PageFailureDoesNotAbortScan ==
  \A c \in Scanned :
    LET paths == filePaths(env, variant)
        docs == calls[c].scan.docs
    IN /\ Len(docs) = Len(paths)
       /\ \A i \in 1..Len(paths) :
            LET abs == absOf(paths[i])
            IN (existsSync(disk, abs) /\ disk[abs].infoOk /\
                \E p \in PagesToScan(abs, calls[c].maxPages) : ~disk[abs].pages[p].ok)
               => /\ docs[i].path = abs
                  /\ \A p \in PagesToScan(abs, calls[c].maxPages) :
                       /\ HasEntry(docs[i], p)
                       /\ ~disk[abs].pages[p].ok => HasErrorEntry(docs[i], p)

\* the same for the pdftotext extractor alone
C22_PdftotextScanGoesOn == variant = "pdftotext" => C22_PageFailureDoesNotAbortScan

\* a step in which call c runs scanConfiguredPdfs
ScanStep(c) == calls[c].pc = "idle" /\ calls'[c].op = "scanConfiguredPdfs"

\* the report that the configuration, the store and the page bound determine
ReportOf(c) == scanConfiguredPdfs(variant, env, disk, calls[c].maxPages)

\* C23: scanConfiguredPdfs is independent of the index: a scan leaves the
\* cached promise, the builds and the reset count as they were, and its report
\* is the one the configuration, the store and the page bound determine,
\* whether the cache is unbuilt, building or ready.
C23_ScanIndependentOfIndex ==
  /\ [][\A c \in Callers : ScanStep(c) => UNCHANGED <<g, builds, started, resets>>]_vars
  /\ [](\A c \in Scanned : calls[c].scan = ReportOf(c))

\* a scan has reported on a document page by page while the build that
\* another call started is still in flight
C23_ScannedWhileBuilding ==
  \E c \in Scanned : \E k \in Ensured :
    /\ k < c
    /\ calls[k].pc = "await"
    /\ g # 0 /\ builds[g].status # "fulfilled"
    /\ \E i \in 1..Len(calls[c].scan.docs) : calls[c].scan.docs[i].pages # <<>>

\* the requests for which getRelevantContext has returned
PostRetrievedCalls ==
  {c \in Callers : calls[c].op = "POST" /\
                   calls[c].stage \in {"model", "diagnostics", "failed", "responded"}}

\* C24: when getRelevantContext returns null, POST /api/analyze sends the
\* model the prompt and the image without a context prefix, and once the model
\* has replied it answers with status 200 and contextMeta = [].
C24_NoContextIsNoError ==
  \A c \in PostRetrievedCalls :
    calls[c].context.isNull =>
      /\ calls[c].sent = <<[type |-> "text", text |-> enhancedPrompt(calls[c].query)],
                           [type |-> "image", data |-> calls[c].imageBase64]>>
      /\ calls[c].pc = "done" /\ ~calls[c].reply.threw =>
           /\ calls[c].response.status = 200
           /\ calls[c].response.contextMeta = <<>>

\* a request was answered with status 200 over an index without chunks, for
\* which getRelevantContext returned null
C24_AnsweredWithoutContext ==
  \E c \in PostRetrievedCalls :
    /\ calls[c].context.isNull
    /\ calls[c].stage = "responded"
    /\ calls[c].response.status = 200
    /\ builds[calls[c].index].value.totalChunks = 0
    /\ Len(calls[c].sent) = 2

\* a request was answered whose message carried a context prefix
C24_AnsweredWithContext ==
  \E c \in PostRetrievedCalls :
    /\ ~calls[c].context.isNull
    /\ calls[c].stage = "responded"
    /\ Len(calls[c].sent) = 3
    /\ calls[c].response.contextMeta # <<>>

-----------------------------------------------------------------------------
(* Scoring claims *)

\* whether query token qt occurs in chunk i of the index
Occurs(idx, i, qt) == qt \in TokensOf(idx, i)

\* C25: over a built index scoreChunk is never negative, it is 0 when the
\* query has no token or none of its tokens occurs in the chunk, and it is
\* strictly positive when the chunk contains a query token that fewer than
\* totalChunks chunks contain.
C25_ScoreSign ==
  \A c \in Retrieved :
    LET idx == IndexOf(c)
        q == tokenize(calls[c].query)
    IN Once(LAMBDA sc :
              \A i \in 1..Len(idx.chunks) :
                /\ sc[i].num >= sc[i].den
                /\ (\A k \in 1..Len(q) : ~Occurs(idx, i, q[k])) => sc[i].num = sc[i].den
                /\ (\E k \in 1..Len(q) : /\ Occurs(idx, i, q[k])
                                         /\ GetOr(idx.df, q[k], 0) < idx.totalChunks)
                   => ScorePositive(sc[i]),
            ScoresOf(c))

\* a retrieval scored one chunk above 0 and a chunk without any query
\* token 0
C25_PositiveAndZeroScores ==
  \E c \in Retrieved : \E i, j \in 1..Len(IndexOf(c).chunks) :
    /\ ScorePositive(ScoreOf(c, i))
    /\ ~ScorePositive(ScoreOf(c, j))
    /\ \A k \in 1..Len(tokenize(calls[c].query)) :
         ~Occurs(IndexOf(c), j, tokenize(calls[c].query)[k])

\* a retrieval scored 0 a chunk that holds a query token, which every chunk
\* holds
C25_MatchInEveryChunkScoresZero ==
  \E c \in Retrieved : \E i \in 1..Len(IndexOf(c).chunks) :
    /\ \E k \in 1..Len(tokenize(calls[c].query)) :
         Occurs(IndexOf(c), i, tokenize(calls[c].query)[k])
    /\ ~ScorePositive(ScoreOf(c, i))

\* the chunks of an index in the order in which a query ranks them
RankingOf(idx, qTokens) ==
  Once(LAMBDA sorted : [i \in 1..Len(sorted) |-> sorted[i].c], ScoredAll(idx, qTokens))

\* the retrievals made with the arguments of the route
RouteRetrieved ==
  {c \in Retrieved : calls[c].charBudget = RouteCharBudget /\ calls[c].topK = RouteTopK}

\* the score counts each distinct query token once: a query that repeats one
\* of its tokens gives every chunk the same score
C26_RepeatedTokenKeepsScore ==
  \A c \in RouteRetrieved :
    LET idx == IndexOf(c)
        q == tokenize(calls[c].query)
    IN \A k \in 1..Len(q) : \A i \in 1..Len(idx.chunks) :
         LET a == scoreChunk(q, idx.chunks[i], idx.df, idx.totalChunks)
             b == scoreChunk(Append(q, q[k]), idx.chunks[i], idx.df, idx.totalChunks)
         IN a.num * b.den = b.num * a.den

\* C26: the score counts each distinct query token once, so that a query
\* that repeats one of its tokens ranks the chunks in the same order.
C26_RepeatedTokenKeepsRanking ==
  \A c \in RouteRetrieved :
    LET idx == IndexOf(c)
        q == tokenize(calls[c].query)
    IN \A k \in 1..Len(q) : RankingOf(idx, Append(q, q[k])) = RankingOf(idx, q)

-----------------------------------------------------------------------------
(* Chunking claims *)

\* the whitespace-normalized text that the extractor obtains as page p of a
\* file: the pdftotext variant extracts page by page when pdfinfo gives a page
\* count and the whole document as page 1 otherwise; the pdfjs variant
\* extracts the whole document as page 1
PageTextOf(v, file, p) ==
  IF v = "pdftotext"
  THEN IF PdfInfoPages(file) > 0 THEN extractRange(file, p, p)
       ELSE IF p = 1 THEN extractRange(file, 0, 0) ELSE <<>>
  ELSE IF p = 1 /\ Readable(file)
       THEN normalizeWhitespace(ConcatPages(file.pages, 1, <<" ">>))
       ELSE <<>>

\* the chunks of an IndexState from page p of the document at abs, in the
\* order of the index
PageChunksOf(idx, abs, p) ==
  SelectSeq(idx.chunks, LAMBDA ch : ch.docPath = abs /\ ch.page = p)

RECURSIVE ConcatTexts(_, _)
ConcatTexts(cs, k) == IF k > Len(cs) THEN <<>> ELSE cs[k].text \o ConcatTexts(cs, k + 1)

\* whether cs are consecutive windows of text: none empty, none longer than
\* targetChunkChars, all but the last of targetChunkChars characters, and
\* their concatenation is text
AreWindowsOf(cs, text) ==
  /\ \A k \in 1..Len(cs) :
       /\ Len(cs[k].text) > 0
       /\ Len(cs[k].text) <= targetChunkChars
       /\ k < Len(cs) => Len(cs[k].text) = targetChunkChars
  /\ ConcatTexts(cs, 1) = text

PathIndex(abs) ==
  CHOOSE k \in 1..Len(filePaths(env, variant)) : absOf(filePaths(env, variant)[k]) = abs

\* the offset in its page text at which a chunk starts: the number its id
\* ends with
OffsetOf(ch) ==
  CHOOSE n \in {k * targetChunkChars : k \in 0..3} :
    ch.id = ch.docName \o <<"-", "p">> \o NumString(ch.page) \o <<"-">> \o NumString(n)

\* whether chunk a comes before chunk b by document configuration order, then
\* page number, then starting offset
ComesBefore(a, b) ==
  \/ PathIndex(a.docPath) < PathIndex(b.docPath)
  \/ /\ a.docPath = b.docPath
     /\ \/ a.page < b.page
        \/ a.page = b.page /\ OffsetOf(a) < OffsetOf(b)

\* C28: the chunks of a built index are in document configuration order, then
\* by page number, then by starting offset, the offset being where the
\* chunk's text starts in its page's normalized text.
C28_ChunkOrder ==
  \A idx \in Built :
    /\ \A i, j \in 1..Len(idx.chunks) : i < j => ComesBefore(idx.chunks[i], idx.chunks[j])
    /\ \A i \in 1..Len(idx.chunks) :
         LET ch == idx.chunks[i]
         IN ch.text = SubSeq(PageTextOf(variant, disk[ch.docPath], ch.page),
                             OffsetOf(ch) + 1, OffsetOf(ch) + Len(ch.text))

\* a built index holds two chunks of one page, a chunk of a later page and a
\* chunk of an earlier configured document
C28_TwoDocumentsPagesAndOffsets ==
  \E idx \in Built : \E i, j, k, l \in 1..Len(idx.chunks) :
    /\ i < j /\ j < k /\ k < l
    /\ idx.chunks[i].docPath # idx.chunks[j].docPath
    /\ idx.chunks[j].docPath = idx.chunks[l].docPath
    /\ idx.chunks[j].page = idx.chunks[k].page
    /\ idx.chunks[k].page < idx.chunks[l].page

-----------------------------------------------------------------------------
(* Tokenization claims *)

\* C29: tokenizing the tokens of a text joined by single spaces gives the
\* same tokens, and every token is non-empty and made of a-z and 0-9 only.
C29_TokenizeIdempotent ==
  \A c \in Retrieved :
    Once(LAMBDA t :
           /\ tokenize(Join(t, <<" ">>)) = t
           /\ \A k \in 1..Len(t) :
                /\ t[k] # <<>>
                /\ \A i \in 1..Len(t[k]) : IsLowerAlnum(t[k][i]),
         tokenize(calls[c].query))

\* a retrieval tokenized a query with a capital and a punctuation mark into
\* two tokens
C29_TokenizedMixedQuery ==
  \E c \in Retrieved :
    /\ "B" \in Range(calls[c].query)
    /\ "-" \in Range(calls[c].query)
    /\ Len(tokenize(calls[c].query)) = 2

-----------------------------------------------------------------------------
(* Stale builds *)

\* the builds started before the last resetIndex()
Stale == {b \in 1..Len(builds) : started[b] < resets}

\* build b completes in this step
Completes(b) == builds[b].status = "pending" /\ builds'[b].status = "fulfilled"

\* C30: a build in flight when resetIndex() was called never becomes the
\* cached index: the cache is empty or holds a build started after the last
\* reset, the completion of a stale build leaves the cache as it is, and no
\* call issued after the reset awaits a stale build.
C30_StaleBuildNeverCached ==
  /\ [](g # 0 => g \notin Stale)
  /\ [][\A b \in Stale : Completes(b) => g' = g /\ g' # b]_vars
  /\ [](\A c \in Ensured : \A b \in Stale : calls[c].epoch = resets => calls[c].p # b)

\* a build that was in flight at the reset has completed, with chunks, while
\* its caller is still to be resumed and the cache is empty or holds a later
\* build
C30_StaleBuildCompleted ==
  \E c \in Ensured :
    /\ calls[c].pc = "await"
    /\ calls[c].epoch < resets
    /\ calls[c].p \in Stale
    /\ builds[calls[c].p].status = "fulfilled"
    /\ builds[calls[c].p].value.totalChunks > 0
    /\ g # calls[c].p

====
